---- MODULE Spec2Model ----
(***************************************************************************)
(* A model of pronto's term graph: pronto/term.py (Term, TermList) and     *)
(* pronto/ontology.py (Ontology).                                          *)
(*                                                                         *)
(* The Python heap is modelled explicitly.  Term instances are numbered    *)
(* 1..Len(objs) in the order they are allocated.  The relations attribute  *)
(* of a Term is a REFERENCE to a dict object, because Term.__init__ has    *)
(* the mutable default argument relations = {} : every Term built without  *)
(* a relations argument holds the one dict made when the def statement     *)
(* ran (DefaultRelations).  A dict object is a function from the kinds it  *)
(* holds to a sequence of endpoints; an endpoint is an identifier string   *)
(* (Str) or a reference to a Term instance (Ref).  Identifier strings are  *)
(* coded as the integers 1..NumIds, whose order is the order of sorted().  *)
(***************************************************************************)
EXTENDS Integers, Sequences, FiniteSets, TLC

NumIds == 3
MaxObj == 3
MaxLevel == 2
MaxEdges == 2

Ids == 1..NumIds
Stores == {1, 2}

Str(i) == [term |-> FALSE, v |-> i]
Ref(o) == [term |-> TRUE, v |-> o]

DefaultRelations == 0

\* AdoptedKinds with is_part recorded on the parent as has_part, the inverse
\* of part_of.
AdoptedKindsAliased ==
  << [fwd |-> "is_a", inv |-> "can_be"],
     [fwd |-> "part_of", inv |-> "has_part"],
     [fwd |-> "is_part", inv |-> "has_part"] >>

\* The forward kinds _adopt looks at, in the order of its three ifs, each
\* with the kind of the edge it records on the parent.
AdoptedKinds ==
  << [fwd |-> "is_a", inv |-> "can_be"],
     [fwd |-> "part_of", inv |-> "has_part"],
     [fwd |-> "is_part", inv |-> "part_of"] >>

ParentalRships == << "is_a", "is_part", "part_of" >>
ChildrenRships == << "has_part", "can_be" >>
KindOrder == << "is_a", "is_part", "part_of", "has_part", "can_be" >>

\* What a parser hands to Term(...) as the relations argument: nothing
\* (NoArg), or a dict (Arg) of textual endpoints.
NoArg == [given |-> FALSE, dict |-> << >>]
Arg(d) == [given |-> TRUE, dict |-> d]

\* the sequences of 1..n identifier strings
Endpoints(n) == UNION { [1..m -> {Str(p) : p \in Ids}] : m \in 1..n }

RECURSIVE EdgeCount(_, _)
\* the number of endpoints a dict holds under the kinds of ks
EdgeCount(d, ks) ==
  IF ks = << >> THEN 0
  ELSE (IF Head(ks) \in DOMAIN d THEN Len(d[Head(ks)]) ELSE 0)
       + EdgeCount(d, Tail(ks))

\* the dicts over the kinds K that hold between one and n endpoints
RawDicts(K, n) ==
  { d \in UNION { [S -> Endpoints(n)] :
                    S \in { T \in SUBSET K : T # {} /\ Cardinality(T) <= n } } :
      EdgeCount(d, KindOrder) <= n }

\* The relations arguments of the raw records of a file, by what the parser
\* and the file do.  RawPlain: no relations argument.  RawIsA: always a dict
\* of the record's own, empty or with one is_a line.  RawForward: no
\* argument, or a dict with one line of a forward kind.  RawGraph: no
\* argument, or a dict of is_a and can_be lines.  A file holds at most
\* MaxEdges lines (Parse).
RawPlain == {NoArg}
RawIsA == {Arg(<< >>)} \cup { Arg(d) : d \in RawDicts({"is_a"}, 1) }
RawForward ==
  {NoArg} \cup { Arg(d) : d \in RawDicts({"is_a", "part_of", "is_part"}, 1) }
RawGraph ==
  {NoArg} \cup { Arg(d) : d \in RawDicts({"can_be"}, MaxEdges) }
          \cup { Arg(d) : d \in RawDicts({"is_a"}, 1) }
Names == {"n"}
Descs == {"d"}

VARIABLES
  objs,           \* the Term instances: objs[o] = [id, name, desc, relations]
  rels,           \* the relations dict objects, by reference
  terms,          \* terms[s]: Ontology.terms of store s, identifier -> instance
  phase,          \* where __init__ of store s stands
  relationships,  \* relationships[s]: the list the first loop of _adopt built
  iter,           \* iter[s]: _index and _terms_accessions of store s
  loop,           \* loop[l]: a for loop over a store, and what it was handed
  cache,          \* the lru_cache of Term.parents, keyed by instance
  ret             \* what the last call of rchildren returned or raised

vars == << objs, rels, terms, phase, relationships, iter, loop, cache, ret >>

Heap == [objs |-> objs, rels |-> rels]

----------------------------------------------------------------------------
\* term.py

\* Term.__init__: a new instance; without a relations argument it holds the
\* shared default dict, with one it holds that dict.
TermNew(H, cid, name, desc, relations) ==
  LET o == Len(H.objs) + 1 IN
  IF ~relations.given
  THEN [objs |-> Append(H.objs, [id |-> cid, name |-> name, desc |-> desc,
                                 relations |-> DefaultRelations]),
        rels |-> H.rels]
  ELSE [objs |-> Append(H.objs, [id |-> cid, name |-> name, desc |-> desc,
                                 relations |-> o]),
        rels |-> (o :> relations.dict) @@ H.rels]

\* self.relations of instance o
Relations(H, o) == H.rels[H.objs[o].relations]

RECURSIVE ConcatKinds(_, _)
\* the lists a dict holds under the kinds of ks, concatenated in that order
ConcatKinds(d, ks) ==
  IF ks = << >> THEN << >>
  ELSE (IF Head(ks) \in DOMAIN d THEN d[Head(ks)] ELSE << >>)
       \o ConcatKinds(d, Tail(ks))

\* Term.children: computed on every read
Children(H, o) == ConcatKinds(Relations(H, o), ChildrenRships)

\* the body of Term.parents
ParentsBody(H, o) == ConcatKinds(Relations(H, o), ParentalRships)

\* Term.parents: functools.lru_cache(None) around the body, keyed by self;
\* a hit returns what the first read computed.
Parents(H, c, o) == IF o \in DOMAIN c THEN c[o] ELSE ParentsBody(H, o)

\* AddsChildren without `or level==1`
AddsChildrenIntermediateOnly(level, intermediate) == intermediate

\* `if intermediate or level==1`
AddsChildren(level, intermediate) == intermediate \/ level = 1

\* A chain of calls longer than the number of instances holds an instance
\* twice, so it never ends: Python ends it with RecursionError.  A chain
\* bounded by level has at most level + 1 calls.
RecursionLimit(H) == Len(H.objs) + MaxLevel + 1

RECURSIVE RChildren(_, _, _, _, _)
RECURSIVE RChildrenLoop(_, _, _, _, _, _)

\* Term.rchildren, as call number depth of the chain.  val is the set the
\* call wraps in a TermList: set() compares instances by identity.
RChildren(H, o, level, intermediate, depth) ==
  IF depth > RecursionLimit(H) THEN [raised |-> "RecursionError", val |-> {}]
  ELSE IF level = 0 THEN [raised |-> "none", val |-> {}]
  ELSE LET ch == Children(H, o)
           first == IF AddsChildren(level, intermediate)
                    THEN { ch[i].v : i \in { j \in 1..Len(ch) : ch[j].term } }
                    ELSE {}
       IN RChildrenLoop(H, ch, level - 1, intermediate, depth + 1, first)

\* `for child in self.children`: a child that is still a string has no
\* rchildren (AttributeError); what a call raises ends the loop.
RChildrenLoop(H, ch, level, intermediate, depth, acc) ==
  IF ch = << >> THEN [raised |-> "none", val |-> acc]
  ELSE IF ~Head(ch).term THEN [raised |-> "AttributeError", val |-> {}]
  ELSE LET r == RChildren(H, Head(ch).v, level, intermediate, depth)
       IN IF r.raised # "none" THEN r
          ELSE RChildrenLoop(H, Tail(ch), level, intermediate, depth,
                             acc \cup r.val)

----------------------------------------------------------------------------
\* ontology.py

RECURSIVE SortedSeq(_)
\* sorted(S)
SortedSeq(S) ==
  IF S = {} THEN << >>
  ELSE LET m == CHOOSE x \in S : \A y \in S : x <= y
       IN << m >> \o SortedSeq(S \ {m})

\* Ontology.__contains__ for a string or a Term
Contains(H, tm, item) ==
  IF item.term THEN H.objs[item.v].id \in DOMAIN tm ELSE item.v \in DOMAIN tm

RECURSIVE TermRelationships(_, _, _)
\* the tuples _adopt appends for one term: for each of the three forward
\* kinds, one (parent, inverse kind, term.id) per endpoint
TermRelationships(H, o, ks) ==
  IF ks = << >> THEN << >>
  ELSE LET d == Relations(H, o)
           k == Head(ks)
           here == IF k.fwd \in DOMAIN d
                   THEN [i \in 1..Len(d[k.fwd]) |->
                           [parent |-> d[k.fwd][i], rel |-> k.inv,
                            child |-> H.objs[o].id]]
                   ELSE << >>
       IN here \o TermRelationships(H, o, Tail(ks))

RECURSIVE Relationships(_, _, _)
\* the first loop of _adopt, over the terms in sorted order
Relationships(H, tm, keys) ==
  IF keys = << >> THEN << >>
  ELSE TermRelationships(H, tm[Head(keys)], AdoptedKinds)
       \o Relationships(H, tm, Tail(keys))

\* `if parent in self`
AdoptGuard(H, tm, parent) == Contains(H, tm, parent)

RECURSIVE ApplyRelationships(_, _, _)
\* the second loop of _adopt.  self[parent] with a Term as key raises
\* KeyError: the keys of self.terms are strings.
ApplyRelationships(H, tm, rs) ==
  IF rs = << >> THEN [heap |-> H, raised |-> "none"]
  ELSE LET r == Head(rs) IN
       IF AdoptGuard(H, tm, r.parent)
       THEN IF r.parent.term
            THEN [heap |-> H, raised |-> "KeyError"]
            ELSE LET d == H.objs[tm[r.parent.v]].relations
                     old == H.rels[d]
                     lst == IF r.rel \in DOMAIN old THEN old[r.rel] ELSE << >>
                     new == [k \in DOMAIN old \cup {r.rel} |->
                               IF k = r.rel THEN Append(lst, Str(r.child))
                               ELSE old[k]]
                 IN ApplyRelationships([H EXCEPT !.rels[d] = new], tm, Tail(rs))
       ELSE ApplyRelationships(H, tm, Tail(rs))

\* Ontology._adopt
AdoptPass(H, tm) ==
  ApplyRelationships(H, tm, Relationships(H, tm, SortedSeq(DOMAIN tm)))

\* ResolveEndpoint without `if not isinstance(x, pronto.term.Term)`: an
\* entry the store does not hold as a key is always replaced by a new
\* placeholder.
ResolveEndpointNoIsinstance(H, tm, x) ==
  IF ~x.term /\ x.v \in DOMAIN tm
  THEN [heap |-> H, val |-> Ref(tm[x.v])]
  ELSE [heap |-> TermNew(H, IF x.term THEN H.objs[x.v].id ELSE x.v, "", "", NoArg),
        val |-> Ref(Len(H.objs) + 1)]

\* one element of the comprehension of _reference.  `x in self.terms.keys()`
\* is false for a Term x: Term defines neither __eq__ nor __hash__, and the
\* keys are strings.
ResolveEndpoint(H, tm, x) ==
  IF ~x.term /\ x.v \in DOMAIN tm
  THEN [heap |-> H, val |-> Ref(tm[x.v])]
  ELSE IF ~x.term
  THEN [heap |-> TermNew(H, x.v, "", "", NoArg), val |-> Ref(Len(H.objs) + 1)]
  ELSE [heap |-> H, val |-> x]

RECURSIVE ResolveList(_, _, _, _)
\* the comprehension over relval, left to right; relvalref is the list built
\* so far
ResolveList(H, tm, lst, relvalref) ==
  IF lst = << >> THEN [heap |-> H, val |-> relvalref]
  ELSE LET a == ResolveEndpoint(H, tm, Head(lst))
       IN ResolveList(a.heap, tm, Tail(lst), Append(relvalref, a.val))

\* self.terms[termkey].relations[relkey] = TermList(relvalref), for the dict
\* d of the term and r the outcome of the comprehension
Rebind(r, d, k) == [r.heap EXCEPT !.rels[d][k] = r.val]

RECURSIVE ReferenceTerm(_, _, _, _)
\* the inner loop of _reference for the term o, over the kinds its dict holds
ReferenceTerm(H, tm, o, ks) ==
  IF ks = << >> THEN H
  ELSE LET d == H.objs[o].relations
           k == Head(ks)
       IN IF k \in DOMAIN H.rels[d]
          THEN ReferenceTerm(Rebind(ResolveList(H, tm, H.rels[d][k], << >>), d, k),
                             tm, o, Tail(ks))
          ELSE ReferenceTerm(H, tm, o, Tail(ks))

RECURSIVE ReferenceTerms(_, _, _)
ReferenceTerms(H, tm, keys) ==
  IF keys = << >> THEN H
  ELSE ReferenceTerms(ReferenceTerm(H, tm, tm[Head(keys)], KindOrder), tm, Tail(keys))

\* Ontology._reference.  The dicts are walked in a fixed order here; the
\* order only decides which instance number a new placeholder gets.
ReferencePass(H, tm) == ReferenceTerms(H, tm, SortedSeq(DOMAIN tm))

\* Update keeping the store's own Term under an id both stores hold
UpdateKeepingOwn(mine, theirs) ==
  [i \in DOMAIN mine \cup DOMAIN theirs |->
     IF i \in DOMAIN mine THEN mine[i] ELSE theirs[i]]

\* self.terms.update(other.terms)
Update(mine, theirs) ==
  [i \in DOMAIN mine \cup DOMAIN theirs |->
     IF i \in DOMAIN theirs THEN theirs[i] ELSE mine[i]]

----------------------------------------------------------------------------
\* The operations

NoIter == [active |-> FALSE, index |-> 0, accessions |-> << >>]
NoLoop == [pc |-> "idle", store |-> 0, out |-> << >>]
NoRet == [raised |-> "none", val |-> {}, self |-> 0, level |-> 0,
          intermediate |-> FALSE]
Loops == {1, 2}

Init ==
  /\ objs = << >>
  /\ rels = (DefaultRelations :> << >>)
  /\ terms = [s \in Stores |-> << >>]
  /\ phase = [s \in Stores |-> "none"]
  /\ relationships = [s \in Stores |-> << >>]
  /\ iter = [s \in Stores |-> NoIter]
  /\ loop = [l \in Loops |-> NoLoop]
  /\ cache = << >>
  /\ ret = NoRet

\* __init__ runs to its end before the caller goes on: no other store is
\* between its first raw record and the end of its _reference.
Idle(s) == \A o \in Stores \ {s} : phase[o] \in {"none", "ready", "failed"}

RECURSIVE FileEdges(_, _, _)
\* the endpoints of the raw records read so far
FileEdges(H, tm, keys) ==
  IF keys = << >> THEN 0
  ELSE (IF H.objs[tm[Head(keys)]].relations = DefaultRelations THEN 0
        ELSE EdgeCount(Relations(H, tm[Head(keys)]), KindOrder))
       + FileEdges(H, tm, Tail(keys))

\* _parse (a collaborator): one more raw record of the file becomes a Term of
\* store s; R is the set its relations argument is drawn from.
Parse(s, R) ==
  /\ phase[s] \in {"none", "parsing"}
  /\ Idle(s)
  /\ Len(objs) < MaxObj
  /\ \E read \in {FileEdges(Heap, terms[s], SortedSeq(DOMAIN terms[s]))},
        cid \in Ids, name \in Names, desc \in Descs, relations \in R :
       /\ \A i \in DOMAIN terms[s] : i < cid
       /\ read + EdgeCount(relations.dict, KindOrder) <= MaxEdges
       /\ LET H == TermNew(Heap, cid, name, desc, relations) IN
          /\ objs' = H.objs
          /\ rels' = H.rels
          /\ terms' = [terms EXCEPT ![s] = (cid :> Len(H.objs)) @@ @]
  /\ phase' = [phase EXCEPT ![s] = "parsing"]
  /\ UNCHANGED << relationships, iter, loop, cache, ret >>

\* self._adopt() in __init__.  Its `for term in self` runs __iter__ and
\* __next__ to the end, which leaves the store without _index.
Adopt(s) ==
  /\ phase[s] \in {"none", "parsing"}
  /\ Idle(s)
  /\ \E r \in {AdoptPass(Heap, terms[s])} :
       /\ objs' = r.heap.objs
       /\ rels' = r.heap.rels
       /\ phase' = [phase EXCEPT ![s] = IF r.raised = "none" THEN "adopted" ELSE "failed"]
  /\ relationships' = [relationships EXCEPT
                         ![s] = Relationships(Heap, terms[s], SortedSeq(DOMAIN terms[s]))]
  /\ iter' = [iter EXCEPT ![s] = NoIter]
  /\ UNCHANGED << terms, loop, cache, ret >>

\* self._reference() in __init__
Reference(s) ==
  /\ phase[s] = "adopted"
  /\ Idle(s)
  /\ \E H \in {ReferencePass(Heap, terms[s])} :
       /\ Len(H.objs) <= MaxObj
       /\ objs' = H.objs
       /\ rels' = H.rels
  /\ phase' = [phase EXCEPT ![s] = "ready"]
  /\ UNCHANGED << terms, relationships, iter, loop, cache, ret >>

\* Ontology.merge(other) with other an Ontology; from __init__ (its imports,
\* between _adopt and _reference) or from the caller.
Merge(s, o) ==
  /\ phase[s] \in {"adopted", "ready"}
  /\ phase[o] = "ready"
  /\ \E tm \in {Update(terms[s], terms[o])} :
       \E H \in {ReferencePass(Heap, tm)} :
         /\ Len(H.objs) <= MaxObj
         /\ terms' = [terms EXCEPT ![s] = tm]
         /\ objs' = H.objs
         /\ rels' = H.rels
  /\ UNCHANGED << phase, relationships, iter, loop, cache, ret >>

\* a read of o.parents
ReadParents(o) ==
  /\ o \in 1..Len(objs)
  /\ o \notin DOMAIN cache
  /\ cache' = (o :> ParentsBody(Heap, o)) @@ cache
  /\ UNCHANGED << objs, rels, terms, phase, relationships, iter, loop, ret >>

\* o.rchildren(level, intermediate), on a Term of a built store or on one
\* reached from it.  The call changes no Term, so one call is followed per
\* behaviour.
Rchildren(o, level, intermediate) ==
  /\ o \in 1..Len(objs)
  /\ ret = NoRet
  /\ \E s \in Stores : phase[s] = "ready"
  /\ \A s \in Stores : Idle(s) /\ phase[s] # "adopted" /\ phase[s] # "parsing"
  /\ \E r \in {RChildren(Heap, o, level, intermediate, 1)} :
       ret' = [raised |-> r.raised, val |-> r.val, self |-> o, level |-> level,
               intermediate |-> intermediate]
  /\ UNCHANGED << objs, rels, terms, phase, relationships, iter, loop, cache >>

\* A loop is followed until it has been handed more Terms than a store can
\* hold.
MaxHanded == NumIds + 1

\* The for loops are nested: the statement of loop 2 stands in the body of
\* loop 1.  The body runs once loop 1 has been handed a Term, and loop 1
\* asks for its next Term only when loop 2 is not running.
InBody(l) ==
  IF l = 1 THEN TRUE ELSE loop[l - 1].pc = "running" /\ loop[l - 1].out # << >>
BodyDone(l) == \A m \in Loops : m > l => loop[m].pc # "running"

\* Ontology.__iter__, called as the for loop l over store s starts
Iter(l, s) ==
  /\ loop[l].pc \in {"idle", "done", "left"}
  /\ InBody(l)
  /\ BodyDone(l)
  /\ phase[s] = "ready"
  /\ iter' = [iter EXCEPT ![s] = [active |-> TRUE, index |-> -1,
                                  accessions |-> SortedSeq(DOMAIN terms[s])]]
  /\ loop' = [loop EXCEPT ![l] = [pc |-> "running", store |-> s, out |-> << >>]]
  /\ UNCHANGED << objs, rels, terms, phase, relationships, cache, ret >>

\* Ontology.__next__, called by the for loop l.  `self._index += 1` on a
\* store whose _index was deleted raises AttributeError, which the
\* `except IndexError` does not catch.
NextItem(l) ==
  /\ loop[l].pc = "running"
  /\ BodyDone(l)
  /\ Len(loop[l].out) < MaxHanded
  /\ LET s == loop[l].store
         it == iter[s]
     IN IF ~it.active
        THEN /\ loop' = [loop EXCEPT ![l].pc = "AttributeError"]
             /\ UNCHANGED iter
        ELSE IF it.index + 1 < Len(it.accessions)
        THEN /\ iter' = [iter EXCEPT ![s].index = it.index + 1]
             /\ loop' = [loop EXCEPT ![l].out =
                           Append(@, terms[s][it.accessions[it.index + 2]])]
        ELSE /\ iter' = [iter EXCEPT ![s] = NoIter]
             /\ loop' = [loop EXCEPT ![l].pc = "done"]
  /\ UNCHANGED << objs, rels, terms, phase, relationships, cache, ret >>

\* `break` in the body of loop l: the loop is left, the store's _index and
\* _terms_accessions stay as they are.
Break(l) ==
  /\ loop[l].pc = "running"
  /\ loop[l].out # << >>
  /\ BodyDone(l)
  /\ loop' = [loop EXCEPT ![l].pc = "left"]
  /\ UNCHANGED << objs, rels, terms, phase, relationships, iter, cache, ret >>

Levels == -1..MaxLevel

\* Stores built from files with is_a lines, and merged.
Next ==
  \/ \E s \in Stores : Parse(s, RawIsA)
  \/ \E s \in Stores : Adopt(s)
  \/ \E s \in Stores : Reference(s)
  \/ \E s, o \in Stores : Merge(s, o)

Spec == Init /\ [][Next]_vars

\* Store 1 built from a file with lines of the three forward kinds; store 2
\* a vocabulary of bare terms, merged into it.
NextAdopt ==
  \/ Parse(1, RawForward)
  \/ Parse(2, RawPlain)
  \/ \E s \in Stores : Adopt(s)
  \/ \E s \in Stores : Reference(s)
  \/ \E s, o \in Stores : Merge(s, o)

SpecAdopt == Init /\ [][NextAdopt]_vars

\* One store, and reads of parents at any point of its construction.
NextRead ==
  \/ Parse(1, RawForward)
  \/ Adopt(1)
  \/ Reference(1)
  \/ \E o \in 1..MaxObj : ReadParents(o)

SpecRead == Init /\ [][NextRead]_vars

\* One store built from a file with is_a and can_be lines, and traversals.
NextQuery ==
  \/ Parse(1, RawGraph)
  \/ Adopt(1)
  \/ Reference(1)
  \/ \E o \in 1..MaxObj, level \in Levels, intermediate \in BOOLEAN :
       Rchildren(o, level, intermediate)

SpecQuery == Init /\ [][NextQuery]_vars

\* One store of bare terms, and two for loops over it.
NextIter ==
  \/ Parse(1, RawPlain)
  \/ Adopt(1)
  \/ Reference(1)
  \/ \E l \in Loops : Iter(l, 1)
  \/ \E l \in Loops : NextItem(l)
  \/ \E l \in Loops : Break(l)

SpecIter == Init /\ [][NextIter]_vars

----------------------------------------------------------------------------
\* The properties

Objs == 1..Len(objs)
HeapNext == [objs |-> objs', rels |-> rels']
Ready(s) == phase[s] = "ready"
StoreTerms(s) == { terms[s][i] : i \in DOMAIN terms[s] }
ListOf(H, o, k) == IF k \in DOMAIN Relations(H, o) THEN Relations(H, o)[k] ELSE << >>
Range(lst) == { lst[i] : i \in 1..Len(lst) }
EndpointsOf(H, o) == UNION { Range(Relations(H, o)[k]) : k \in DOMAIN Relations(H, o) }
EndpointId(e) == IF e.term THEN objs[e.v].id ELSE e.v
Resolved(s) == \A o \in StoreTerms(s) : \A e \in EndpointsOf(Heap, o) : e.term

\* C1: every endpoint of every Term of a built store is a Term, and is the
\* store's Term for its id or a placeholder (empty name and description)
\* whose id the store does not hold.
C1_ReferentialIntegrity ==
  \A s \in Stores : Ready(s) =>
    \A o \in StoreTerms(s) : \A e \in EndpointsOf(Heap, o) :
      /\ e.term
      /\ \/ /\ objs[e.v].id \in DOMAIN terms[s]
            /\ terms[s][objs[e.v].id] = e.v
         \/ /\ objs[e.v].name = ""
            /\ objs[e.v].desc = ""
            /\ objs[e.v].id \notin DOMAIN terms[s]

\* The kind _adopt is to record on the parent, by the kind of the forward edge.
InverseOf(k) ==
  CASE k = "is_a" -> "can_be"
    [] k = "part_of" -> "has_part"
    [] k = "is_part" -> "part_of"

ForwardKinds == {"is_a", "part_of", "is_part"}

\* the forward edges of the terms of store s whose parent is a string the
\* store holds, as (term id, kind, position)
PresentEdges(s) ==
  { e \in (DOMAIN terms[s]) \X ForwardKinds \X (1..MaxEdges) :
      /\ e[3] <= Len(ListOf(Heap, terms[s][e[1]], e[2]))
      /\ ~ListOf(Heap, terms[s][e[1]], e[2])[e[3]].term
      /\ ListOf(Heap, terms[s][e[1]], e[2])[e[3]].v \in DOMAIN terms[s] }

RECURSIVE SumOver(_, _)
SumOver(f, S) ==
  IF S = {} THEN 0
  ELSE LET x == CHOOSE y \in S : TRUE IN f[x] + SumOver(f, S \ {x})

\* the number of endpoints all the dicts of heap H hold
TotalEndpoints(H) ==
  SumOver([d \in DOMAIN H.rels |-> EdgeCount(H.rels[d], KindOrder)], DOMAIN H.rels)

IsPrefix(a, b) == Len(a) <= Len(b) /\ \A i \in 1..Len(a) : a[i] = b[i]

AdoptStep(s) == phase[s] \in {"none", "parsing"} /\ phase'[s] = "adopted"

C7_MergeRightBiased ==
  [][\A s \in Stores :
       (phase[s] \in {"adopted", "ready"} /\ terms'[s] # terms[s]) =>
         \E o \in Stores :
           /\ phase[o] = "ready"
           /\ DOMAIN terms'[s] = DOMAIN terms[s] \cup DOMAIN terms[o]
           /\ \A i \in DOMAIN terms[o] : terms'[s][i] = terms[o][i]
           /\ \A i \in DOMAIN terms[s] \ DOMAIN terms[o] : terms'[s][i] = terms[s][i]
    ]_vars

\* C7 witness: store s holds the Term of another built store under an id
\* for which a parsed Term of its own was dropped, and still holds a Term
\* of its own under an id the other store lacks.
C7_Witness ==
  \E s, o \in Stores :
    /\ s # o /\ Ready(s) /\ Ready(o)
    /\ \E i \in DOMAIN terms[s] \cap DOMAIN terms[o] :
         /\ terms[s][i] = terms[o][i]
         /\ \E x \in Objs :
              /\ objs[x].id = i /\ objs[x].name # ""
              /\ \A q \in Stores : x \notin StoreTerms(q)
    /\ DOMAIN terms[s] \ DOMAIN terms[o] # {}

\* C8: on a built store whose endpoints are all Terms, one more run of
\* _reference changes nothing: no instance is made, and every list holds
\* the instances it held, in the order it held them.
C8_ReferenceIdempotent ==
  \A s \in Stores : (Ready(s) /\ Resolved(s)) => ReferencePass(Heap, terms[s]) = Heap

\* C8 witness: a resolved built store that a merge has run _reference on
\* again, with an endpoint that is its own Term and one that is not (a
\* placeholder, or a Term it dropped).
C8_Witness ==
  \E s, o \in Stores :
    /\ s # o /\ Ready(s) /\ Ready(o) /\ Resolved(s)
    /\ terms[o] # << >>
    /\ \A i \in DOMAIN terms[o] : i \in DOMAIN terms[s] /\ terms[s][i] = terms[o][i]
    /\ \E a, b \in StoreTerms(s) :
         /\ \E e \in EndpointsOf(Heap, a) : e.v \in StoreTerms(s)
         /\ \E e \in EndpointsOf(Heap, b) : e.v \notin StoreTerms(s)

\* the Terms _adopt of store s writes to: the store's Terms for the parents
\* that are strings it holds
AdoptTargets(s) ==
  { terms[s][ListOf(Heap, terms[s][e[1]], e[2])[e[3]].v] : e \in PresentEdges(s) }

\* C9: a placeholder (empty name and description) has no relations in any
\* state, and a step of _adopt changes the relations of no Term but those
\* it records an inverse edge on.
C9_NoAliasing ==
  /\ [](\A o \in Objs : (objs[o].name = "" /\ objs[o].desc = "") => Relations(Heap, o) = << >>)
  /\ [][\A s \in Stores : (phase[s] \in {"none", "parsing"} /\ phase'[s] # phase[s]
                           /\ phase'[s] # "parsing") =>
          \A o \in Objs \ AdoptTargets(s) : Relations(HeapNext, o) = Relations(Heap, o)
       ]_vars

\* C4: a read of parents gives the lists under is_a, is_part, part_of of
\* the relations as they are now, and a read of children those under
\* has_part, can_be.
C4_DerivedFresh ==
  \A o \in Objs :
    /\ Parents(Heap, cache, o)
         = ListOf(Heap, o, "is_a") \o ListOf(Heap, o, "is_part") \o ListOf(Heap, o, "part_of")
    /\ Children(Heap, o) = ListOf(Heap, o, "has_part") \o ListOf(Heap, o, "can_be")

\* the instances one children hop away from those of S
Hop(H, S) == UNION { { e.v : e \in { x \in Range(Children(H, o)) : x.term } } : o \in S }

RECURSIVE Hops(_, _, _)
\* the instances exactly n children hops away from those of S
Hops(H, S, n) == IF n = 0 THEN S ELSE Hops(H, Hop(H, S), n - 1)

\* the instances between 1 and n hops away from o
Within(H, o, n) == UNION { Hops(H, {o}, k) : k \in 1..n }
Descendants(H, o) == Within(H, o, Len(H.objs))
AllResolved == \A o \in Objs : \A e \in Range(Children(Heap, o)) : e.term
Acyclic == \A o \in Objs : o \notin Descendants(Heap, o)
Asked == ret.self # 0

\* C3: rchildren(level=-1) on a resolved store returns, cycle or not.
C3_CycleSafe ==
  (Asked /\ ret.level = -1 /\ AllResolved) => ret.raised = "none"

\* C5: what rchildren returns holds no two elements with the same id.
C5_DedupById ==
  (Asked /\ ret.raised = "none") =>
    \A a, b \in ret.val : objs[a].id = objs[b].id => a = b

\* C6: on a resolved acyclic graph rchildren returns nothing for level 0,
\* the Terms 1 to N hops away for level N >= 1 with intermediate, those
\* exactly N hops away without, and all descendants for level -1 with
\* intermediate.
C6_DepthSemantics ==
  (Asked /\ AllResolved /\ Acyclic) =>
    /\ ret.raised = "none"
    /\ ret.level = 0 => ret.val = {}
    /\ (ret.level >= 1 /\ ret.intermediate) => ret.val = Within(Heap, ret.self, ret.level)
    /\ (ret.level >= 1 /\ ~ret.intermediate) => ret.val = Hops(Heap, {ret.self}, ret.level)
    /\ (ret.level = -1 /\ ret.intermediate) => ret.val = Descendants(Heap, ret.self)

\* C6 witness: a call with level 2 and without intermediate, on a resolved
\* acyclic graph, that returned a grandchild and left out a child.
C6_Witness ==
  /\ Asked /\ AllResolved /\ Acyclic
  /\ ret.level = 2 /\ ~ret.intermediate
  /\ ret.val # {}
  /\ Hop(Heap, {ret.self}) \ ret.val # {}

\* C10: a for loop over a store that is not left by break ends normally, and
\* has then been handed each Term of the store once, in ascending order of
\* id; also when a loop over the same store ran in its body.
C10_SortedComplete ==
  \A l \in Loops :
    /\ loop[l].pc # "AttributeError"
    /\ loop[l].pc = "done" =>
         LET tm == terms[loop[l].store]
             keys == SortedSeq(DOMAIN tm)
         IN loop[l].out = [i \in 1..Len(keys) |-> tm[keys[i]]]

====
